---- MODULE Spec2Model ----
(***************************************************************************)
(* Model of ambassador/ir/irtls.py: the IREnvoyTLS entity, its             *)
(* cert_specified check and its setup protocol, run over a sequence of     *)
(* compilation passes that share the class-level _cert_problems flag.      *)
(*                                                                         *)
(* An entity is a record [enabled, attrs]; attrs is the attribute bag, a   *)
(* function whose domain is the set of keys present.  The ir argument is   *)
(* a record of the capabilities setup consults:                            *)
(*   file_checker   the set of paths for which ir.file_checker is true     *)
(*   has_resolver   ir.tls_secret_resolver is not None                     *)
(*   resolved       what the resolver returns: <<>> for None, <<bag>> for  *)
(*                  a mapping                                              *)
(*   tls_defaults   what ir.get_tls_defaults(name) returns (None and {}    *)
(*                  are the same to the code: "or {}")                     *)
(***************************************************************************)
EXTENDS Integers, Sequences, FiniteSets, TLC

VARIABLES
    cert_problems,  \* IREnvoyTLS._cert_problems, the class-level flag
    pc,             \* "idle" | "ready" | "done": position of the current entity
    self,           \* the current entity [enabled, attrs]
    ir,             \* the capabilities the current setup call consults
    ret,            \* the value the last setup call returned
    call,           \* what the last setup call did: errors posted, paths checked, ...
    pass,           \* number of the running compilation pass
    stats           \* what the running pass has seen so far

vars == <<cert_problems, pc, self, ir, ret, call, pass, stats>>

\* ----------------------------------------------------------------- bounds

MaxEntities == 2
MaxPasses == 2

\* ----------------------------------------------------------- attribute bag

None == "None"

EmptyBag == [k \in {} |-> None]

\* dict.get(key): a key that is absent reads as None
Get(bag, key) ==
    IF key \in DOMAIN bag THEN bag[key] ELSE None

\* self[key] = value
Put(bag, key, value) ==
    [k \in (DOMAIN bag) \cup {key} |-> IF k = key THEN value ELSE bag[k]]

\* dict.pop(key, None): popping an absent key changes nothing
Pop(bag, key) ==
    [k \in (DOMAIN bag) \ {key} |-> bag[k]]

\* dict.update(other)
Update(bag, other) ==
    [k \in (DOMAIN bag) \cup (DOMAIN other) |-> IF k \in DOMAIN other THEN other[k] ELSE bag[k]]

\* ------------------------------------------------------------------ errors

NoticeMsg == "TLS is not being turned on, traffic will NOT be served over HTTPS"
ConflictMsg == "Both, secret and certs are specified, stopping ..."
UnresolvedMsg == "Secret could not be resolved"
ChainMissingMsg == "cert_chain_file path does not exist"
KeyMissingMsg == "private_key_file path does not exist"

\* self.post_error(msg): an error scoped to the entity
ScopedError(msg, arg) ==
    [scope |-> "entity", msg |-> msg, arg |-> arg]

\* ir.post_error(msg): an error of the whole pass
PassError(msg) ==
    [scope |-> "ir", msg |-> msg, arg |-> None]

\* ---------------------------------------------------------- cert_specified

\* The result of one file check inside cert_specified: what it posts, the
\* flag afterwards.
FailedCheck(first, notice, cp) ==
    [ret |-> FALSE,
     posted |-> IF cp THEN <<first>> ELSE <<first, notice>>,
     cp |-> TRUE]

\* IREnvoyTLS.cert_specified(ir), reading the bag `attrs` with the class
\* flag at `cp`.  Returns [ret, posted, cp, checked].
cert_specified(attrs, env, cp) ==
    LET cert_chain_file == Get(attrs, "cert_chain_file")
        private_key_file == Get(attrs, "private_key_file")
        chainChecked == IF cert_chain_file # None THEN {cert_chain_file} ELSE {}
    IN  IF cert_chain_file # None /\ cert_chain_file \notin env.file_checker
        THEN FailedCheck(ScopedError(ChainMissingMsg, cert_chain_file),
                         PassError(NoticeMsg), cp)
                 @@ [checked |-> chainChecked]
        ELSE IF private_key_file # None /\ private_key_file \notin env.file_checker
        THEN FailedCheck(ScopedError(KeyMissingMsg, private_key_file),
                         ScopedError(NoticeMsg, None), cp)
                 @@ [checked |-> chainChecked \cup {private_key_file}]
        ELSE [ret |-> (cert_chain_file # None) \/ (private_key_file # None),
              posted |-> <<>>,
              cp |-> cp,
              checked |-> chainChecked \cup
                          (IF private_key_file # None THEN {private_key_file} ELSE {})]

\* ------------------------------------------------------------------- setup

\* line 88: self.enabled
Enabled_always(entity) ==
    TRUE

Enabled(entity) ==
    entity.enabled

\* lines 93-94: cert_chain_file is renamed to certificate_chain_file
Rename(attrs) ==
    IF Get(attrs, "cert_chain_file") # None
    THEN Put(Pop(attrs, "cert_chain_file"), "certificate_chain_file", attrs["cert_chain_file"])
    ELSE attrs

\* line 100: the secret/cert conflict
ConflictDetected_never(secret, certSpecified) ==
    FALSE

ConflictDetected(secret, certSpecified) ==
    secret # None /\ certSpecified

\* lines 101-103: what the conflict path pops
ClearConflict(attrs) ==
    Pop(Pop(Pop(attrs, "secret"), "cert_chain_file"), "private_key_file")

\* line 120: turn TLS on
TurnOn_certs_only(secret, certSpecified, redirect) ==
    certSpecified \/ redirect # None

TurnOn(secret, certSpecified, redirect) ==
    secret # None \/ certSpecified \/ redirect # None

\* lines 124-128: backfill with the defaults
Backfill_override(attrs, defaults) ==
    Update(attrs, defaults)

Backfill(attrs, defaults) ==
    [k \in (DOMAIN attrs) \cup (DOMAIN defaults) |->
        IF k \in DOMAIN attrs THEN attrs[k] ELSE defaults[k]]

\* line 132: the value setup returns when it runs to its end
FinalReturn_valid(attrs) ==
    attrs["valid_tls"]

FinalReturn(attrs) ==
    TRUE

\* IREnvoyTLS.setup(ir, aconf) on `entity` with the class flag at `cp`.
\* Returns [ret, attrs, cp, posted, checked, resolver_calls].
setup(entity, env, cp) ==
    IF ~Enabled(entity)
    THEN [ret |-> FALSE, attrs |-> entity.attrs, cp |-> cp, posted |-> <<>>,
          checked |-> {}, resolver_calls |-> 0]
    ELSE
    LET a1 == Put(entity.attrs, "valid_tls", FALSE)
        a2 == Rename(a1)
        secret == Get(a2, "secret")
        cs == cert_specified(a2, env, cp)
    IN  IF ConflictDetected(secret, cs.ret)
        THEN [ret |-> FALSE, attrs |-> ClearConflict(a2), cp |-> cs.cp,
              posted |-> cs.posted \o <<ScopedError(ConflictMsg, None),
                                        ScopedError(NoticeMsg, None)>>,
              checked |-> cs.checked, resolver_calls |-> 0]
        ELSE IF secret # None /\ env.has_resolver /\ env.resolved = <<>>
        THEN [ret |-> FALSE, attrs |-> a2, cp |-> cs.cp,
              posted |-> cs.posted \o <<ScopedError(UnresolvedMsg, secret),
                                        ScopedError(NoticeMsg, None)>>,
              checked |-> cs.checked, resolver_calls |-> 1]
        ELSE
        LET called == secret # None /\ env.has_resolver
            a3 == IF called THEN Update(a2, env.resolved[1]) ELSE a2
            a4 == IF TurnOn(secret, cs.ret, Get(a3, "redirect_cleartext_from"))
                  THEN Put(a3, "valid_tls", TRUE) ELSE a3
            a5 == Backfill(a4, env.tls_defaults)
        IN  [ret |-> FinalReturn(a5), attrs |-> a5, cp |-> cs.cp,
             posted |-> cs.posted,
             checked |-> cs.checked, resolver_calls |-> IF called THEN 1 ELSE 0]

\* ------------------------------------------------------- inputs of the model

SecretNames == {"s"}
ChainPaths == {"/c"}
KeyPaths == {"/k"}
Paths == ChainPaths \cup KeyPaths
RedirectPorts == {"8080"}
MinVersions == {"v1.0"}

\* The keyword arguments an IREnvoyTLS is built from: each key absent or set.
OptionalKey(key, values) ==
    {EmptyBag} \cup {[k \in {key} |-> v] : v \in values}

InputBags ==
    {Update(Update(Update(Update(s, c), k), r), m) :
        s \in OptionalKey("secret", SecretNames),
        c \in OptionalKey("cert_chain_file", ChainPaths),
        k \in OptionalKey("private_key_file", KeyPaths),
        r \in OptionalKey("redirect_cleartext_from", RedirectPorts),
        m \in OptionalKey("min_version", MinVersions)}

\* What a configured resolver may return: None, or the resolved key material.
ResolverResults ==
    {<<>>, <<[certificate_chain_file |-> "/x", private_key_file |-> "/y"]>>}

\* What ir.get_tls_defaults may return for the entity's name.
DefaultBags ==
    {Update(Update(m, c), k) :
        m \in OptionalKey("min_version", {"v1.2"}),
        c \in OptionalKey("cert_chain_file", {"/d"}),
        k \in OptionalKey("private_key_file", {"/dk"})}

Environments ==
    {[file_checker |-> f, has_resolver |-> h, resolved |-> r, tls_defaults |-> d] :
        f \in SUBSET Paths, h \in BOOLEAN, r \in ResolverResults, d \in DefaultBags}

NoEntity == [enabled |-> FALSE, attrs |-> EmptyBag]
NoEnv == [file_checker |-> {}, has_resolver |-> FALSE, resolved |-> <<>>,
          tls_defaults |-> EmptyBag]
NoCall == [pre |-> EmptyBag, cp0 |-> FALSE, posted |-> <<>>, checked |-> {},
           resolver_calls |-> 0]

\* -------------------------------------------------------- reading the errors

Count(posted, msgs) ==
    Cardinality({i \in 1..Len(posted) : posted[i].msg \in msgs})

\* the one-time notices among `posted`: those cert_specified posts right after
\* a "does not exist" error (lines 67 and 80)
OneTimeNotices(posted) ==
    Cardinality({i \in 2..Len(posted) :
        /\ posted[i].msg = NoticeMsg
        /\ posted[i-1].msg \in {ChainMissingMsg, KeyMissingMsg}})

\* the entity is enabled and one of its cert files fails the existence check
FailsCertCheck(entity, env) ==
    /\ entity.enabled
    /\ \/ /\ Get(entity.attrs, "cert_chain_file") # None
          /\ entity.attrs["cert_chain_file"] \notin env.file_checker
       \/ /\ Get(entity.attrs, "private_key_file") # None
          /\ entity.attrs["private_key_file"] \notin env.file_checker

NewStats(cp) ==
    [n |-> 0, certfail |-> 0, missing |-> 0, notices |-> 0, cp0 |-> cp]

\* ------------------------------------------------------------ state machine

Init ==
    /\ cert_problems = FALSE
    /\ pc = "idle"
    /\ self = NoEntity
    /\ ir = NoEnv
    /\ ret = FALSE
    /\ call = NoCall
    /\ pass = 1
    /\ stats = NewStats(FALSE)

\* IREnvoyTLS.__init__: an entity is built from its keyword arguments
Construct ==
    /\ pc = "idle"
    /\ stats.n < MaxEntities
    /\ \E e \in BOOLEAN, attrs \in InputBags :
          self' = [enabled |-> e, attrs |-> attrs]
    /\ pc' = "ready"
    /\ UNCHANGED <<cert_problems, ir, ret, call, pass, stats>>

\* IREnvoyTLS.setup runs on the entity, against the capabilities of the ir
Setup ==
    /\ pc = "ready"
    /\ \E env \in Environments :
          LET r == setup(self, env, cert_problems)
          IN  /\ ir' = env
              /\ self' = [self EXCEPT !.attrs = r.attrs]
              /\ cert_problems' = r.cp
              /\ ret' = r.ret
              /\ call' = [pre |-> self.attrs, cp0 |-> cert_problems,
                          posted |-> r.posted, checked |-> r.checked,
                          resolver_calls |-> r.resolver_calls]
              /\ stats' = [stats EXCEPT
                    !.n = @ + 1,
                    !.certfail = @ + (IF FailsCertCheck(self, env) THEN 1 ELSE 0),
                    !.missing = @ + Count(r.posted, {ChainMissingMsg, KeyMissingMsg}),
                    !.notices = @ + OneTimeNotices(r.posted)]
    /\ pc' = "done"
    /\ UNCHANGED pass

\* the entity is kept by the ir and the pass moves on to the next one
Save ==
    /\ pc = "done"
    /\ pc' = "idle"
    /\ self' = NoEntity
    /\ ir' = NoEnv
    /\ ret' = FALSE
    /\ call' = NoCall
    /\ UNCHANGED <<cert_problems, pass, stats>>

\* a new compilation pass starts in the same process: new entities, new
\* errors; the class attribute _cert_problems is not touched
NewPass ==
    /\ pc = "idle"
    /\ pass < MaxPasses
    /\ pass' = pass + 1
    /\ stats' = NewStats(cert_problems)
    /\ UNCHANGED <<cert_problems, pc, self, ir, ret, call>>

Next ==
    \/ Construct
    \/ Setup
    \/ Save
    \/ NewPass

Spec == Init /\ [][Next]_vars

\* ------------------------------------------------- vocabulary of the claims

Has(bag, key) == Get(bag, key) # None

\* setup has run on an enabled entity
SetupDone == pc = "done" /\ self.enabled

\* the derived flag after setup
ValidTLS == Get(self.attrs, "valid_tls") = TRUE

Posted(msg) == \E i \in 1..Len(call.posted) : call.posted[i].msg = msg

\* the entity came with this cert file and the file checker accepts its path
FileOK(key) ==
    Has(call.pre, key) /\ call.pre[key] \in ir.file_checker

\* the entity came with this cert file and the file checker rejects its path
FileMissing(key) ==
    Has(call.pre, key) /\ call.pre[key] \notin ir.file_checker

SecretResolved ==
    Has(call.pre, "secret") /\ call.resolver_calls = 1 /\ ir.resolved # <<>>

\* the entity came with no secret, no cert files and no redirect
Bare ==
    /\ ~Has(call.pre, "secret")
    /\ ~Has(call.pre, "cert_chain_file")
    /\ ~Has(call.pre, "private_key_file")
    /\ ~Has(call.pre, "redirect_cleartext_from")

\* setup stopped on the secret/cert conflict or on an unresolved secret
StoppedEarly == Posted(ConflictMsg) \/ Posted(UnresolvedMsg)

\* ------------------------------------------------------------------ claims

\* C1: an enabled entity with a secret and both cert files present and
\* existing makes setup return False with valid_tls false, exactly two
\* scoped errors (the conflict, then the notice), and no call of the resolver.
C1_ConflictPriority ==
    (SetupDone /\ Has(call.pre, "secret")
        /\ FileOK("cert_chain_file") /\ FileOK("private_key_file"))
    => /\ ret = FALSE
       /\ Get(self.attrs, "valid_tls") = FALSE
       /\ call.posted = <<ScopedError(ConflictMsg, None), ScopedError(NoticeMsg, None)>>
       /\ call.resolver_calls = 0

C1_Witness ==
    /\ SetupDone /\ Has(call.pre, "secret")
    /\ FileOK("cert_chain_file") /\ FileOK("private_key_file")
    /\ ir.has_resolver /\ ir.resolved # <<>>
    /\ ret = FALSE

\* C2: after setup has detected the secret/cert conflict the bag holds no
\* secret, no chain file under either of its keys, and no private key file.
C2_ConflictClears ==
    (SetupDone /\ Posted(ConflictMsg))
    => /\ "secret" \notin DOMAIN self.attrs
       /\ "cert_chain_file" \notin DOMAIN self.attrs
       /\ "certificate_chain_file" \notin DOMAIN self.attrs
       /\ "private_key_file" \notin DOMAIN self.attrs

\* C3: after setup on an enabled entity valid_tls is true if and only if the
\* secret was resolved, or both cert files are present and existing, or
\* redirect_cleartext_from is present.
C3_ValidityDisjunction ==
    SetupDone
    => (ValidTLS <=> \/ SecretResolved
                     \/ FileOK("cert_chain_file") /\ FileOK("private_key_file")
                     \/ Has(call.pre, "redirect_cleartext_from"))

\* C4: a cert_chain_file whose path fails the file check makes setup post
\* the scoped error naming the path, post the one-time notice if the flag
\* was unset, and (no secret, no redirect) end with valid_tls false.
C4_MissingChainReported ==
    (SetupDone /\ FileMissing("cert_chain_file"))
    => /\ \E i \in 1..Len(call.posted) :
             call.posted[i] = ScopedError(ChainMissingMsg, call.pre["cert_chain_file"])
       /\ ~call.cp0 => OneTimeNotices(call.posted) = 1
       /\ (~Has(call.pre, "secret") /\ ~Has(call.pre, "redirect_cleartext_from"))
             => ~ValidTLS

\* C5: a pass that starts with the flag unset and sets up N > 1 enabled
\* entities, each failing a cert file check, posts the notice exactly once
\* and exactly N "does not exist" errors.
C5_OneNoticePerPass ==
    (~stats.cp0 /\ stats.n > 1 /\ stats.certfail = stats.n)
    => stats.notices = 1 /\ stats.missing = stats.n

\* C6: the flag is unset when a pass starts, and every pass in which an
\* entity has failed a cert file check has recorded the notice exactly once.
C6_FlagResetPerPass ==
    /\ (pc = "idle" /\ stats.n = 0) => ~cert_problems
    /\ stats.certfail >= 1 => stats.notices = 1

\* the keys setup itself writes, renames or merges before the backfill
SetupWrites ==
    {"valid_tls", "cert_chain_file", "certificate_chain_file"}
        \cup (IF call.resolver_calls = 1 /\ ir.resolved # <<>>
              THEN DOMAIN ir.resolved[1] ELSE {})

DefaultRespected(k) ==
    /\ k \in DOMAIN self.attrs
    /\ self.attrs[k] = IF k \in DOMAIN call.pre THEN call.pre[k] ELSE ir.tls_defaults[k]

\* C7 as stated: on every path of setup, each default key keeps the value
\* the entity had, or takes the default when the entity had none.
C7_DefaultsOnEveryPath ==
    SetupDone => \A k \in DOMAIN ir.tls_defaults : DefaultRespected(k)

\* C7 as amended: when setup runs to its end (no conflict, no unresolved
\* secret), each default key that setup does not itself write keeps the value
\* the entity had, or takes the default when the entity had none.
C7_DefaultsWhenComplete ==
    (SetupDone /\ ~StoppedEarly)
    => \A k \in (DOMAIN ir.tls_defaults) \ SetupWrites : DefaultRespected(k)

C7_Witness ==
    /\ SetupDone /\ ~StoppedEarly
    /\ Has(call.pre, "min_version") /\ Has(ir.tls_defaults, "min_version")
    /\ call.pre["min_version"] # ir.tls_defaults["min_version"]
    /\ ~Has(call.pre, "private_key_file") /\ Has(ir.tls_defaults, "private_key_file")
    /\ Get(self.attrs, "private_key_file") = ir.tls_defaults["private_key_file"]

\* C8 as stated: setup returns the value of valid_tls; the bare entity ends
\* with valid_tls false, no errors, and False returned.
C8_ReturnIsValidity ==
    SetupDone
    => /\ ret = ValidTLS
       /\ Bare => (~ValidTLS /\ call.posted = <<>> /\ ret = FALSE)

\* C8 as amended: setup returns False exactly when it stops on the conflict
\* or on an unresolved secret and True otherwise, so valid_tls true implies
\* True returned; the bare entity ends with valid_tls false, no errors, and
\* True returned.
C8_ReturnIsCompletion ==
    SetupDone
    => /\ ret = ~StoppedEarly
       /\ ValidTLS => ret
       /\ Bare => (~ValidTLS /\ call.posted = <<>> /\ ret = TRUE)

C8_Witness ==
    SetupDone /\ Bare /\ ~ValidTLS /\ ret = TRUE

\* C9: setup on a disabled entity returns False and changes nothing: no
\* error, the flag as it was, no file check, no resolver call, the same bag.
C9_DisabledShortCircuit ==
    (pc = "done" /\ ~self.enabled)
    => /\ ret = FALSE
       /\ call.posted = <<>>
       /\ cert_problems = call.cp0
       /\ call.checked = {}
       /\ call.resolver_calls = 0
       /\ DOMAIN self.attrs = DOMAIN call.pre
       /\ \A k \in DOMAIN call.pre : self.attrs[k] = call.pre[k]

C9_Witness ==
    /\ pc = "done" /\ ~self.enabled /\ ret = FALSE
    /\ Has(call.pre, "secret") /\ Has(call.pre, "cert_chain_file")
    /\ FileMissing("private_key_file")
    /\ ir.has_resolver
    /\ ir.tls_defaults # EmptyBag

\* C10: a private key file that fails the file check, next to a secret the
\* resolver resolves, is reported (scoped error, and the notice if the flag
\* was unset) but is no conflict: the resolved attributes are merged and
\* valid_tls ends true.
C10_MissingKeyNotBlocking ==
    (SetupDone /\ FileMissing("private_key_file")
        /\ Has(call.pre, "secret") /\ ir.has_resolver /\ ir.resolved # <<>>)
    => /\ call.posted[1] = ScopedError(KeyMissingMsg, call.pre["private_key_file"])
       /\ Len(call.posted) = IF call.cp0 THEN 1 ELSE 2
       /\ ~call.cp0 => call.posted[2].msg = NoticeMsg
       /\ ~Posted(ConflictMsg)
       /\ call.resolver_calls = 1
       /\ \A k \in DOMAIN ir.resolved[1] : Get(self.attrs, k) = ir.resolved[1][k]
       /\ ValidTLS

C10_Witness ==
    /\ SetupDone /\ FileMissing("private_key_file")
    /\ Has(call.pre, "secret") /\ ir.has_resolver /\ ir.resolved # <<>>
    /\ ~call.cp0
    /\ ~Has(call.pre, "redirect_cleartext_from")
    /\ ValidTLS

====
